---- MODULE Spec2Model ----
(***************************************************************************)
(* A model of memory_manager.py: a MemoryManager that carves MemoryBlocks  *)
(* out of one bytearray with a first-fit free list, zero-fills on free,    *)
(* coalesces the free list and compacts the live blocks on demand.         *)
(***************************************************************************)
EXTENDS Integers, Sequences, FiniteSets, TLC

\* ------------------------------------------------------------------ bounds
\* MemoryManager(size): the capacity a manager is constructed with.
TotalSize == 3
\* How many MemoryBlock objects are ever created (caps MemoryBlock._next_id).
MaxBlocks == 3
\* Byte values are 0..MaxByte.
MaxByte == 1
\* The longest data given to write, and the largest size given to read.
MaxData == 2
\* Offsets given to write and read range over -MaxOffset..MaxOffset.
MaxOffset == 1
\* How far a bytearray may grow beyond its capacity before write is disabled.
MaxGrow == 1

\* How many threads call the manager at the same time.
NumThreads == 2

Byte == 0..MaxByte
Offsets == (-MaxOffset)..MaxOffset
ReadSizes == 0..MaxData
DataSet == UNION {[1..n -> Byte] : n \in 0..MaxData}

VARIABLES
    mgrs,              \* the MemoryManager objects that were constructed
    buffer,            \* buffer[m]: MemoryManager._buffer, a sequence of bytes
    allocated_blocks,  \* allocated_blocks[m]: list of block ids, in list order
    free_blocks,       \* free_blocks[m]: list of FreeBlock records, in list order
    blocks,            \* blocks[id]: every MemoryBlock object created so far
    next_id,           \* MemoryBlock._next_id
    last,              \* the outcome of the call that finished last
    lock,              \* MemoryManager._lock: the thread that owns it, how often
    th,                \* th[t]: where thread t is in the call it is making
    written            \* the write call that returned last, for the round trip

vars == <<mgrs, buffer, allocated_blocks, free_blocks, blocks, next_id, last,
          lock, th, written>>

\* ------------------------------------------------------- python primitives
Max(a, b) == IF a > b THEN a ELSE b

\* How Python places a slice index i in a sequence of length n.
SliceIndex(i, n) ==
    IF i < 0 THEN Max(i + n, 0) ELSE (IF i > n THEN n ELSE i)

\* buf[lo:hi]
Slice(buf, lo, hi) ==
    SubSeq(buf, SliceIndex(lo, Len(buf)) + 1, SliceIndex(hi, Len(buf)))

\* buf[lo:hi] = data, the bytearray after the assignment
SliceAssign(buf, lo, hi, data) ==
    LET n == Len(buf)
        l == SliceIndex(lo, n)
        h == Max(SliceIndex(hi, n), l)
    IN  SubSeq(buf, 1, l) \o data \o SubSeq(buf, h + 1, n)

\* b'\x00' * n (empty when n <= 0)
Zeros(n) == [i \in 1..n |-> 0]

RECURSIVE SumSizes(_)
SumSizes(s) == IF s = << >> THEN 0 ELSE Head(s).size + SumSizes(Tail(s))

\* list.remove of the element at position i
RemoveAt(s, i) == SubSeq(s, 1, i - 1) \o SubSeq(s, i + 1, Len(s))

\* Position of x in s, 0 when absent.
IndexOf(s, x) ==
    IF \E i \in 1..Len(s) : s[i] = x
    THEN CHOOSE i \in 1..Len(s) : s[i] = x /\ \A j \in 1..(i - 1) : s[j] # x
    ELSE 0

\* list.sort(key=...) is stable: x goes after every element whose key is <= its
\* own. key is a function from the elements to their sort keys.
RECURSIVE InsertByKey(_, _, _)
InsertByKey(s, x, key) ==
    IF s = << >> THEN <<x>>
    ELSE IF key[x] < key[Head(s)] THEN <<x>> \o s
    ELSE <<Head(s)>> \o InsertByKey(Tail(s), x, key)

\* list.sort left out: the list stays in the order it had.
SortByKeySkipped(s, key) == s

RECURSIVE SortByKey(_, _)
SortByKey(s, key) ==
    IF s = << >> THEN << >>
    ELSE InsertByKey(SortByKey(SubSeq(s, 1, Len(s) - 1), key), s[Len(s)], key)

Range(s) == {s[i] : i \in 1..Len(s)}

\* ------------------------------------------------------------- the objects
FreeBlock(start, size) == [start |-> start, size |-> size]

MemoryBlock(start, size, m) ==
    [start |-> start, size |-> size, mgr |-> m, freed |-> FALSE]

End(b) == b.start + b.size

\* mark_freed without line 77: the flag is left as it was.
mark_freed_forgotten(b) == b

\* MemoryBlock.mark_freed
mark_freed(b) == [b EXCEPT !.freed = TRUE]

\* RLock(): owned by no thread (0), acquired no times.
Unlocked == [owner |-> 0, count |-> 0]

\* No write was recorded.
NoWrite == [block |-> -1, offset |-> 0, data |-> << >>, start |-> 0]

NoCall == [op |-> "init", err |-> "none", mgr |-> 0, block |-> -1,
           size |-> 0, available_size |-> 0, moved |-> 0, compacted |-> FALSE]

Outcome(op, err, m, b) == [NoCall EXCEPT !.op = op, !.err = err, !.mgr = m, !.block = b]

\* The managers constructed with one byte more than TotalSize.
WideManagers == {3}

\* MemoryManager.total_size: the size manager m was constructed with.
total_size_of(m) == IF m \in WideManagers THEN TotalSize + 1 ELSE TotalSize

\* The sizes given to alloc on manager m.
AllocSizes(m) == (-1)..(total_size_of(m) + 1)

MemoryManagerInit(ms) ==
    /\ mgrs = ms
    /\ buffer = [m \in ms |-> Zeros(total_size_of(m))]
    /\ allocated_blocks = [m \in ms |-> << >>]
    /\ free_blocks = [m \in ms |-> <<FreeBlock(0, total_size_of(m))>>]
    /\ blocks = << >>
    /\ next_id = 0
    /\ last = NoCall
    /\ lock = [m \in ms |-> Unlocked]

\* One caller, no threads: every call runs from its first line to its return
\* before the next one starts, and no write is kept for the round trip.
OneCallerInit == th = << >> /\ written = NoWrite

Init == MemoryManagerInit({1}) /\ OneCallerInit

\* ---------------------------------------------------------------- queries
allocated_size(m) ==
    SumSizes([i \in 1..Len(allocated_blocks[m]) |-> blocks[allocated_blocks[m][i]]])

SumFree(fl) == SumSizes(fl)

free_size(m) == SumFree(free_blocks[m])

\* -------------------------------------------------------------- MemoryBlock
\* write without lines 80-81: only the bounds are checked.
write_error_unchecked(b, data, offset) ==
    IF offset + Len(data) > b.size THEN "OutOfBoundsError" ELSE "none"

\* What write(data, offset) raises on block b.
write_error(b, data, offset) ==
    IF b.freed THEN "UseAfterFreeError"
    ELSE IF offset + Len(data) > b.size THEN "OutOfBoundsError"
    ELSE "none"

\* The block's bytearray after a write that does not raise.
write(buf, b, data, offset) ==
    LET write_start == b.start + offset
        write_end == write_start + Len(data)
    IN  SliceAssign(buf, write_start, write_end, data)

\* read(size, offset); has_size = FALSE stands for size=None.
read_size(b, has_size, size, offset) == IF has_size THEN size ELSE b.size - offset

read_error(b, has_size, size, offset) ==
    IF b.freed THEN "UseAfterFreeError"
    ELSE IF offset + read_size(b, has_size, size, offset) > b.size THEN "OutOfBoundsError"
    ELSE "none"

\* read with line 101 leaving the offset out: it reads from the block's start.
read_from_start(buf, b, has_size, size, offset) ==
    Slice(buf, b.start, b.start + read_size(b, has_size, size, offset))

\* The bytes a read that does not raise returns.
read(buf, b, has_size, size, offset) ==
    LET read_start == b.start + offset
        read_end == read_start + read_size(b, has_size, size, offset)
    IN  Slice(buf, read_start, read_end)

\* ------------------------------------------------------------ MemoryManager
\* _find_free_block returning the smallest extent that fits instead of the
\* first one.
find_free_block_best_fit(fl, size) ==
    IF \E i \in 1..Len(fl) : fl[i].size >= size
    THEN CHOOSE i \in 1..Len(fl) :
            /\ fl[i].size >= size
            /\ \A j \in 1..Len(fl) :
                  fl[j].size >= size =>
                      \/ fl[i].size < fl[j].size
                      \/ (fl[i].size = fl[j].size /\ i <= j)
    ELSE 0

\* Index in the free list of the first extent that fits, 0 for None.
find_free_block(fl, size) ==
    IF \E i \in 1..Len(fl) : fl[i].size >= size
    THEN CHOOSE i \in 1..Len(fl) :
            fl[i].size >= size /\ \A j \in 1..(i - 1) : fl[j].size < size
    ELSE 0

\* _move_block without line 225: the start is updated, the bytes stay behind.
move_block_no_copy(blks, buf, id, new_start) ==
    [blocks |-> [blks EXCEPT ![id].start = new_start], buffer |-> buf]

\* _move_block without line 227: the bytes are copied, the start stays.
move_block_start_kept(blks, buf, id, new_start) ==
    [blocks |-> blks,
     buffer |-> SliceAssign(buf, new_start, new_start + blks[id].size,
                            Slice(buf, blks[id].start, End(blks[id])))]

\* _move_block: [blocks, buffer] after moving block id to new_start.
move_block(blks, buf, id, new_start) ==
    IF blks[id].start = new_start
    THEN [blocks |-> blks, buffer |-> buf]
    ELSE LET old_start == blks[id].start
             old_end == End(blks[id])
             new_end == new_start + blks[id].size
         IN  [blocks |-> [blks EXCEPT ![id].start = new_start],
              buffer |-> SliceAssign(buf, new_start, new_end,
                                     Slice(buf, old_start, old_end))]

\* The for loop of _defragmentation over the sorted list, from position i.
RECURSIVE defragmentation_loop(_, _, _, _, _, _)
defragmentation_loop(list, i, blks, buf, current_position, moved_blocks) ==
    IF i > Len(list)
    THEN [blocks |-> blks, buffer |-> buf, moved |-> moved_blocks]
    ELSE LET id == list[i]
             m == IF blks[id].start # current_position
                  THEN move_block(blks, buf, id, current_position)
                  ELSE [blocks |-> blks, buffer |-> buf]
             n == IF blks[id].start # current_position
                  THEN moved_blocks + 1 ELSE moved_blocks
         IN  defragmentation_loop(list, i + 1, m.blocks, m.buffer,
                                  current_position + blks[id].size, n)

\* Line 209 with the extent's size taken to be total_size.
defragmentation_free_oversized(total_allocated, total_size) ==
    IF total_allocated < total_size
    THEN <<FreeBlock(total_allocated, total_size)>>
    ELSE << >>

\* The free list _defragmentation leaves.
defragmentation_free(total_allocated, total_size) ==
    IF total_allocated < total_size
    THEN <<FreeBlock(total_allocated, total_size - total_allocated)>>
    ELSE << >>

\* _defragmentation with line 202 outside the if: every block is counted.
defragmentation_counts_all(list, blks, buf, total_size) ==
    LET sorted == SortByKey(list, [id \in Range(list) |-> blks[id].start])
        r == defragmentation_loop(sorted, 1, blks, buf, 0, 0)
        total_allocated == SumSizes([i \in 1..Len(sorted) |-> r.blocks[sorted[i]]])
    IN  [allocated |-> sorted, blocks |-> r.blocks, buffer |-> r.buffer,
         free |-> defragmentation_free(total_allocated, total_size),
         moved |-> Len(sorted)]

\* _defragmentation on a manager whose allocated list is list: the manager's
\* fields and the blocks afterwards, and the count it returns.
defragmentation(list, blks, buf, total_size) ==
    LET sorted == SortByKey(list, [id \in Range(list) |-> blks[id].start])
        r == defragmentation_loop(sorted, 1, blks, buf, 0, 0)
        total_allocated == SumSizes([i \in 1..Len(sorted) |-> r.blocks[sorted[i]]])
    IN  [allocated |-> sorted, blocks |-> r.blocks, buffer |-> r.buffer,
         free |-> defragmentation_free(total_allocated, total_size),
         moved |-> r.moved]

\* The for loop of _coalesce_free_blocks.
RECURSIVE coalesce_loop(_, _, _)
coalesce_loop(rest, current, coalesced) ==
    IF rest = << >> THEN Append(coalesced, current)
    ELSE LET next_block == Head(rest)
         IN  IF End(current) = next_block.start
             THEN coalesce_loop(Tail(rest),
                     FreeBlock(current.start, current.size + next_block.size),
                     coalesced)
             ELSE coalesce_loop(Tail(rest), next_block, Append(coalesced, current))

\* free without line 186: the sorted list is left as it is.
coalesce_free_blocks_skipped(fl) == fl

\* _coalesce_free_blocks on a list that has a first element.
coalesce_free_blocks(fl) == coalesce_loop(Tail(fl), Head(fl), << >>)

\* The free list after free has appended the extent, sorted and coalesced.
free_list_after_free(fl, b) ==
    LET appended == Append(fl, FreeBlock(b.start, b.size))
        sorted == SortByKey(appended, [r \in Range(appended) |-> r.start])
    IN  coalesce_free_blocks(sorted)

\* alloc without lines 160-163: the remainder of the extent is dropped.
free_list_after_alloc_no_remainder(fl, i, size) == RemoveAt(fl, i)

\* The free list after alloc has carved size bytes off the extent at index i.
free_list_after_alloc(fl, i, size) ==
    LET remaining_size == fl[i].size - size
        removed == RemoveAt(fl, i)
    IN  IF remaining_size > 0
        THEN Append(removed, FreeBlock(fl[i].start + size, remaining_size))
        ELSE removed

\* alloc without lines 146-149: it never compacts and never retries.
alloc_never_compacts(first) == FALSE

\* alloc compacts when its first search found nothing (first = 0 stands for None).
alloc_compacts(first) == first = 0

\* Line 152 passing the capacity instead of the free size.
out_of_memory_total(fl) == TotalSize

\* What alloc passes as available_size to OutOfMemoryError.
out_of_memory_available(fl) == SumFree(fl)

\* Lines 170-174 without the is_freed test: every refused block is reported
\* as freed twice.
free_error_ignores_flag(b) == "DoubleFreeError"

\* What free raises for a block that is not in the allocated list.
free_error(b) == IF b.freed THEN "DoubleFreeError" ELSE "InvalidBlockError"

\* ----------------------------------------------------------------- actions
Alloc(m, size) ==
    IF size <= 0
    THEN /\ last' = [Outcome("alloc", "InvalidSizeError", m, -1) EXCEPT !.size = size]
         /\ UNCHANGED <<mgrs, buffer, allocated_blocks, free_blocks, blocks, next_id>>
    ELSE LET first == find_free_block(free_blocks[m], size)
             d == defragmentation(allocated_blocks[m], blocks, buffer[m], total_size_of(m))
             c == alloc_compacts(first)
             al == IF c THEN d.allocated ELSE allocated_blocks[m]
             bl == IF c THEN d.blocks ELSE blocks
             bf == IF c THEN d.buffer ELSE buffer[m]
             fl == IF c THEN d.free ELSE free_blocks[m]
             i == IF c THEN find_free_block(fl, size) ELSE first
         IN  IF i = 0
             THEN /\ last' = [Outcome("alloc", "OutOfMemoryError", m, -1) EXCEPT
                                 !.size = size, !.compacted = c,
                                 !.moved = IF c THEN d.moved ELSE 0,
                                 !.available_size = out_of_memory_available(fl)]
                  /\ allocated_blocks' = [allocated_blocks EXCEPT ![m] = al]
                  /\ blocks' = bl
                  /\ buffer' = [buffer EXCEPT ![m] = bf]
                  /\ free_blocks' = [free_blocks EXCEPT ![m] = fl]
                  /\ UNCHANGED <<mgrs, next_id>>
             ELSE /\ next_id < MaxBlocks
                  /\ blocks' = [id \in 0..next_id |->
                                   IF id = next_id
                                   THEN MemoryBlock(fl[i].start, size, m)
                                   ELSE bl[id]]
                  /\ next_id' = next_id + 1
                  /\ allocated_blocks' = [allocated_blocks EXCEPT ![m] = Append(al, next_id)]
                  /\ free_blocks' = [free_blocks EXCEPT ![m] = free_list_after_alloc(fl, i, size)]
                  /\ buffer' = [buffer EXCEPT ![m] = bf]
                  /\ last' = [Outcome("alloc", "none", m, next_id) EXCEPT
                                 !.size = size, !.compacted = c,
                                 !.moved = IF c THEN d.moved ELSE 0]
                  /\ UNCHANGED mgrs

Free(m, id) ==
    LET i == IndexOf(allocated_blocks[m], id)
        b == blocks[id]
    IN  IF i = 0
        THEN /\ last' = Outcome("free", free_error(b), m, id)
             /\ UNCHANGED <<mgrs, buffer, allocated_blocks, free_blocks, blocks, next_id>>
        ELSE /\ buffer' = [buffer EXCEPT ![m] = SliceAssign(@, b.start, End(b), Zeros(b.size))]
             /\ blocks' = [blocks EXCEPT ![id] = mark_freed(b)]
             /\ allocated_blocks' = [allocated_blocks EXCEPT ![m] = RemoveAt(@, i)]
             /\ free_blocks' = [free_blocks EXCEPT ![m] = free_list_after_free(@, b)]
             /\ last' = Outcome("free", "none", m, id)
             /\ UNCHANGED <<mgrs, next_id>>

Defragmentation(m) ==
    LET d == defragmentation(allocated_blocks[m], blocks, buffer[m], total_size_of(m))
    IN  /\ allocated_blocks' = [allocated_blocks EXCEPT ![m] = d.allocated]
        /\ blocks' = d.blocks
        /\ buffer' = [buffer EXCEPT ![m] = d.buffer]
        /\ free_blocks' = [free_blocks EXCEPT ![m] = d.free]
        /\ last' = [Outcome("defragmentation", "none", m, -1) EXCEPT !.moved = d.moved]
        /\ UNCHANGED <<mgrs, next_id>>

Write(id, data, offset) ==
    LET b == blocks[id]
        err == write_error(b, data, offset)
    IN  /\ last' = Outcome("write", err, b.mgr, id)
        /\ IF err = "none"
           THEN /\ buffer' = [buffer EXCEPT ![b.mgr] = write(@, b, data, offset)]
                /\ Len(buffer'[b.mgr]) <= total_size_of(b.mgr) + MaxGrow
           ELSE UNCHANGED buffer
        /\ UNCHANGED <<mgrs, allocated_blocks, free_blocks, blocks, next_id>>

Read(id, has_size, size, offset) ==
    LET b == blocks[id]
    IN  /\ last' = Outcome("read", read_error(b, has_size, size, offset), b.mgr, id)
        /\ UNCHANGED <<mgrs, buffer, allocated_blocks, free_blocks, blocks, next_id>>

\* A call by the one caller: the lock it takes is free and is released when
\* the call ends.
OneCaller == UNCHANGED <<lock, th, written>>

AllocStep == OneCaller /\ \E m \in mgrs : \E size \in AllocSizes(m) : Alloc(m, size)
FreeStep == OneCaller /\ \E m \in mgrs, id \in DOMAIN blocks : Free(m, id)
DefragmentationStep == OneCaller /\ \E m \in mgrs : Defragmentation(m)
WriteStep == OneCaller /\ \E id \in DOMAIN blocks, data \in DataSet, offset \in Offsets :
                 Write(id, data, offset)
\* size=None takes no size: the 0 paired with has_size = FALSE is not read.
ReadStep == OneCaller /\ \E id \in DOMAIN blocks, has_size \in BOOLEAN, offset \in Offsets :
                \E size \in (IF has_size THEN ReadSizes ELSE {0}) :
                    Read(id, has_size, size, offset)

Next == AllocStep \/ FreeStep \/ DefragmentationStep \/ WriteStep \/ ReadStep

Spec == Init /\ [][Next]_vars

\* Callers that pass only offsets >= 0 to write.
WriteInBoundsStep == OneCaller /\ \E id \in DOMAIN blocks, data \in DataSet, offset \in 0..MaxOffset :
                         Write(id, data, offset)

NextInBounds ==
    AllocStep \/ FreeStep \/ DefragmentationStep \/ WriteInBoundsStep \/ ReadStep

SpecInBounds == Init /\ [][NextInBounds]_vars

\* Two managers, as in test_invalid_block: a block of one can be passed to the
\* other's free.
InitTwo == MemoryManagerInit({1, 2}) /\ OneCallerInit

\* With two managers the callers write one byte and read, both with the
\* default arguments, as the tests do.
WriteByteStep == OneCaller /\ \E id \in DOMAIN blocks : Write(id, <<1>>, 0)

ReadDefaultStep == OneCaller /\ \E id \in DOMAIN blocks : Read(id, FALSE, 0, 0)

NextTwo ==
    AllocStep \/ FreeStep \/ DefragmentationStep \/ WriteByteStep \/ ReadDefaultStep

SpecTwo == InitTwo /\ [][NextTwo]_vars

\* A manager one byte larger, whose free list can hold an extent of two bytes
\* next to another extent; its callers only allocate, free and compact.
InitWide == MemoryManagerInit(WideManagers) /\ OneCallerInit

NextWide == AllocStep \/ FreeStep \/ DefragmentationStep

SpecWide == InitWide /\ [][NextWide]_vars

\* _coalesce_free_blocks on its own. The free lists it is given are the lists
\* sorted by start whose extents lie in the buffer and share no byte, the
\* empty list among them.
Extents(m) ==
    {r \in [start : 0..(total_size_of(m) - 1), size : 1..total_size_of(m)] :
         End(r) <= total_size_of(m)}

\* The lists whose extents start at p or later.
RECURSIVE SortedFreeListsFrom(_, _)
SortedFreeListsFrom(m, p) ==
    {<< >>} \cup
    UNION {{<<r>> \o rest : rest \in SortedFreeListsFrom(m, End(r))} :
           r \in {x \in Extents(m) : x.start >= p}}

SortedFreeLists(m) == SortedFreeListsFrom(m, 0)

InitCoalesce ==
    /\ mgrs = {1} \cup WideManagers
    /\ buffer = [m \in mgrs |-> Zeros(total_size_of(m))]
    /\ allocated_blocks = [m \in mgrs |-> << >>]
    /\ free_blocks \in [mgrs -> UNION {SortedFreeLists(m) : m \in mgrs}]
    /\ \A m \in mgrs : free_blocks[m] \in SortedFreeLists(m)
    /\ blocks = << >>
    /\ next_id = 0
    /\ last = NoCall
    /\ lock = [m \in mgrs |-> Unlocked]
    /\ OneCallerInit

\* Line 239 reads the first element before the loop: IndexError on an empty
\* list, and the list is left as it is.
CoalesceFreeBlocks(m) ==
    /\ IF free_blocks[m] = << >>
       THEN /\ last' = Outcome("_coalesce_free_blocks", "IndexError", m, -1)
            /\ UNCHANGED free_blocks
       ELSE /\ last' = Outcome("_coalesce_free_blocks", "none", m, -1)
            /\ free_blocks' = [free_blocks EXCEPT ![m] = coalesce_free_blocks(@)]
    /\ UNCHANGED <<mgrs, buffer, allocated_blocks, blocks, next_id>>

CoalesceStep == OneCaller /\ \E m \in mgrs : CoalesceFreeBlocks(m)

NextCoalesce == CoalesceStep

SpecCoalesce == InitCoalesce /\ [][NextCoalesce]_vars

\* The round trip: a write that returns is kept, with the start the block had,
\* until the next write returns; the read asks for what was written, where it
\* was written. The callers pass offsets >= 0, as the round trip does.
WriteRecordedStep ==
    /\ \E id \in DOMAIN blocks, data \in DataSet, offset \in 0..MaxOffset :
          /\ Write(id, data, offset)
          /\ written' = IF last'.err = "none"
                        THEN [block |-> id, offset |-> offset, data |-> data,
                              start |-> blocks[id].start]
                        ELSE written
    /\ UNCHANGED <<lock, th>>

ReadBackStep ==
    /\ written.block \in DOMAIN blocks
    /\ Read(written.block, TRUE, Len(written.data), written.offset)
    /\ OneCaller

NextRoundTrip ==
    AllocStep \/ FreeStep \/ DefragmentationStep \/ WriteRecordedStep \/ ReadBackStep

SpecRoundTrip == Init /\ [][NextRoundTrip]_vars

\* ----------------------------------------------------------------- threads
\* Several threads call one manager. A call that takes the lock is a sequence
\* of steps of its thread: it waits for the lock, runs the statements of the
\* with block in two steps (what it reads, then what it changes), and releases
\* the lock when it returns or raises. MemoryBlock.write takes no lock: it is
\* the step that finds write_start and the step that stores.
Threads == 1..NumThreads

\* No lock at all: every thread enters the with block at once.
lock_can_acquire_always(l, t) == TRUE

\* RLock.acquire with a test for the free lock only: not re-entrant.
lock_can_acquire_not_reentrant(l, t) == l.owner = 0

\* RLock.acquire returns at once when the lock is free or the caller owns it.
lock_can_acquire(l, t) == l.owner = 0 \/ l.owner = t

lock_acquire(l, t) == [owner |-> t, count |-> l.count + 1]

\* RLock.release
lock_release(l) == IF l.count <= 1 THEN Unlocked ELSE [l EXCEPT !.count = @ - 1]

\* A thread that is in no call; left is the number of cycles it has yet to start.
IdleThread(left) ==
    [pc |-> "idle", op |-> "none", err |-> "none", mgr |-> 0, size |-> 0,
     block |-> -1, found |-> FreeBlock(0, 0), compacted |-> FALSE, moved |-> 0,
     write_start |-> 0, left |-> left]

\* with self._lock: the thread waits until it can take the lock.
Enter(t) ==
    /\ th[t].pc = "lock"
    /\ lock_can_acquire(lock[th[t].mgr], t)
    /\ lock' = [lock EXCEPT ![th[t].mgr] = lock_acquire(@, t)]
    /\ th' = [th EXCEPT ![t].pc = "body"]
    /\ UNCHANGED <<mgrs, buffer, allocated_blocks, free_blocks, blocks, next_id,
                   last, written>>

\* The with block is left, by return or by an exception.
Exit(t, after) ==
    /\ th[t].pc = "exit"
    /\ lock' = [lock EXCEPT ![th[t].mgr] = lock_release(@)]
    /\ th' = [th EXCEPT ![t] = after]
    /\ UNCHANGED <<mgrs, buffer, allocated_blocks, free_blocks, blocks, next_id,
                   last, written>>

\* alloc, lines 144-152: the search, the compaction when it found nothing, the
\* second search. What it found is kept for lines 154-163.
AllocSearch(t) ==
    /\ th[t].pc = "body" /\ th[t].op = "alloc"
    /\ LET m == th[t].mgr
           size == th[t].size
           first == find_free_block(free_blocks[m], size)
           d == defragmentation(allocated_blocks[m], blocks, buffer[m], total_size_of(m))
           c == alloc_compacts(first)
           fl == IF c THEN d.free ELSE free_blocks[m]
           i == IF c THEN find_free_block(fl, size) ELSE first
       IN  /\ allocated_blocks' =
                 [allocated_blocks EXCEPT ![m] = IF c THEN d.allocated ELSE @]
           /\ blocks' = IF c THEN d.blocks ELSE blocks
           /\ buffer' = [buffer EXCEPT ![m] = IF c THEN d.buffer ELSE @]
           /\ free_blocks' = [free_blocks EXCEPT ![m] = fl]
           /\ IF i = 0
              THEN /\ last' = [Outcome("alloc", "OutOfMemoryError", m, -1) EXCEPT
                                  !.size = size, !.compacted = c,
                                  !.moved = IF c THEN d.moved ELSE 0,
                                  !.available_size = out_of_memory_available(fl)]
                   /\ th' = [th EXCEPT ![t].pc = "free_size",
                                       ![t].err = "OutOfMemoryError"]
              ELSE /\ last' = last
                   /\ th' = [th EXCEPT ![t].pc = "carve", ![t].found = fl[i],
                                       ![t].compacted = c,
                                       ![t].moved = IF c THEN d.moved ELSE 0]
    /\ UNCHANGED <<mgrs, next_id, lock, written>>

\* alloc, line 152: self.free_size takes the lock the thread already owns.
FreeSizeEnter(t) ==
    /\ th[t].pc = "free_size"
    /\ lock_can_acquire(lock[th[t].mgr], t)
    /\ lock' = [lock EXCEPT ![th[t].mgr] = lock_acquire(@, t)]
    /\ th' = [th EXCEPT ![t].pc = "free_size_sum"]
    /\ UNCHANGED <<mgrs, buffer, allocated_blocks, free_blocks, blocks, next_id,
                   last, written>>

FreeSizeExit(t) ==
    /\ th[t].pc = "free_size_sum"
    /\ lock' = [lock EXCEPT ![th[t].mgr] = lock_release(@)]
    /\ th' = [th EXCEPT ![t].pc = "exit"]
    /\ UNCHANGED <<mgrs, buffer, allocated_blocks, free_blocks, blocks, next_id,
                   last, written>>

\* alloc, lines 154-165: the block is created and appended, then the extent
\* found is removed from the free list (list.remove raises ValueError when it
\* is no longer there) and the remainder appended.
AllocCarve(t) ==
    /\ th[t].pc = "carve"
    /\ next_id < MaxBlocks
    /\ LET m == th[t].mgr
           size == th[t].size
           i == IndexOf(free_blocks[m], th[t].found)
           err == IF i = 0 THEN "ValueError" ELSE "none"
       IN  /\ blocks' = [id \in 0..next_id |->
                            IF id = next_id
                            THEN MemoryBlock(th[t].found.start, size, m)
                            ELSE blocks[id]]
           /\ next_id' = next_id + 1
           /\ allocated_blocks' = [allocated_blocks EXCEPT ![m] = Append(@, next_id)]
           /\ free_blocks' =
                 [free_blocks EXCEPT
                     ![m] = IF i = 0 THEN @ ELSE free_list_after_alloc(@, i, size)]
           /\ last' = [Outcome("alloc", err, m, next_id) EXCEPT
                          !.size = size, !.compacted = th[t].compacted,
                          !.moved = th[t].moved]
           /\ th' = [th EXCEPT ![t].pc = "exit", ![t].err = err,
                               ![t].block = IF i = 0 THEN -1 ELSE next_id]
    /\ UNCHANGED <<mgrs, buffer, lock, written>>

\* free, lines 169-174: the membership test and the errors it raises.
FreeCheck(t) ==
    /\ th[t].pc = "body" /\ th[t].op = "free"
    /\ IF IndexOf(allocated_blocks[th[t].mgr], th[t].block) = 0
       THEN /\ Free(th[t].mgr, th[t].block)
            /\ th' = [th EXCEPT ![t].pc = "exit", ![t].err = last'.err]
       ELSE /\ th' = [th EXCEPT ![t].pc = "zero"]
            /\ UNCHANGED <<mgrs, buffer, allocated_blocks, free_blocks, blocks,
                           next_id, last>>
    /\ UNCHANGED <<lock, written>>

\* free, lines 176-186. When the block has left the allocated list since the
\* test, line 180 raises ValueError after the zero fill and mark_freed.
FreeRelease(t) ==
    /\ th[t].pc = "zero"
    /\ LET m == th[t].mgr
           id == th[t].block
           b == blocks[id]
       IN  IF IndexOf(allocated_blocks[m], id) # 0
           THEN /\ Free(m, id)
                /\ th' = [th EXCEPT ![t].pc = "exit", ![t].err = "none"]
           ELSE /\ buffer' = [buffer EXCEPT
                                 ![m] = SliceAssign(@, b.start, End(b), Zeros(b.size))]
                /\ blocks' = [blocks EXCEPT ![id] = mark_freed(b)]
                /\ last' = Outcome("free", "ValueError", m, id)
                /\ th' = [th EXCEPT ![t].pc = "exit", ![t].err = "ValueError"]
                /\ UNCHANGED <<mgrs, allocated_blocks, free_blocks, next_id>>
    /\ UNCHANGED <<lock, written>>

\* defragmentation, line 190.
DefragmentationBody(t) ==
    /\ th[t].pc = "body" /\ th[t].op = "defragmentation"
    /\ Defragmentation(th[t].mgr)
    /\ th' = [th EXCEPT ![t].pc = "exit", ![t].err = "none"]
    /\ UNCHANGED <<lock, written>>

\* allocated_size and free_size, lines 131-132 and 136-137: the sum is what
\* the call returns.
QueryBody(t) ==
    /\ th[t].pc = "body" /\ th[t].op \in {"allocated_size", "free_size"}
    /\ last' = [Outcome(th[t].op, "none", th[t].mgr, -1) EXCEPT
                   !.size = IF th[t].op = "free_size"
                            THEN free_size(th[t].mgr)
                            ELSE allocated_size(th[t].mgr)]
    /\ th' = [th EXCEPT ![t].pc = "exit", ![t].err = "none"]
    /\ UNCHANGED <<mgrs, buffer, allocated_blocks, free_blocks, blocks, next_id,
                   lock, written>>

\* test_threading: each worker repeats alloc, write, free on one manager. The
\* workers ask for the same size and together for no more than the capacity.
WorkerSize == TotalSize \div NumThreads

WorkerData == [i \in 1..WorkerSize |-> MaxByte]

RECURSIVE SumLeft(_, _)
SumLeft(f, n) == IF n = 0 THEN 0 ELSE f[n].left + SumLeft(f, n - 1)

\* The workers' cycles: at least one each, and no more blocks than MaxBlocks.
InitWorkers ==
    /\ MemoryManagerInit({1})
    /\ written = NoWrite
    /\ th \in {f \in [Threads -> {IdleThread(n) : n \in 1..MaxBlocks}] :
                  SumLeft(f, NumThreads) <= MaxBlocks}

\* The call a worker makes next. An exception ends the cycle it is in (the
\* except clause of the loop body), a free that returned ends it too.
WorkerCall(t) ==
    /\ th[t].pc = "idle"
    /\ IF th[t].op \in {"none", "free"} \/ th[t].err # "none"
       THEN /\ th[t].left > 0
            /\ \E m \in mgrs :
                  th' = [th EXCEPT ![t] = [IdleThread(th[t].left - 1) EXCEPT
                            !.pc = "lock", !.op = "alloc", !.mgr = m,
                            !.size = WorkerSize]]
       ELSE IF th[t].op = "alloc"
       THEN th' = [th EXCEPT ![t].pc = "write", ![t].op = "write"]
       ELSE th' = [th EXCEPT ![t].pc = "lock", ![t].op = "free"]
    /\ UNCHANGED <<mgrs, buffer, allocated_blocks, free_blocks, blocks, next_id,
                   last, lock, written>>

\* block.write(data), lines 80-87: the checks, then write_start from the start
\* the block has now.
WriteCheck(t) ==
    /\ th[t].pc = "write"
    /\ LET b == blocks[th[t].block]
           err == write_error(b, WorkerData, 0)
       IN  IF err # "none"
           THEN /\ last' = Outcome("write", err, b.mgr, th[t].block)
                /\ th' = [th EXCEPT ![t].pc = "idle", ![t].err = err]
           ELSE /\ last' = last
                /\ th' = [th EXCEPT ![t].pc = "store", ![t].write_start = b.start]
    /\ UNCHANGED <<mgrs, buffer, allocated_blocks, free_blocks, blocks, next_id,
                   lock, written>>

\* block.write(data), line 89: the store at the write_start found before.
WriteStore(t) ==
    /\ th[t].pc = "store"
    /\ LET m == th[t].mgr
           write_start == th[t].write_start
           write_end == write_start + Len(WorkerData)
       IN  /\ buffer' = [buffer EXCEPT
                            ![m] = SliceAssign(@, write_start, write_end, WorkerData)]
           /\ last' = Outcome("write", "none", m, th[t].block)
    /\ th' = [th EXCEPT ![t].pc = "idle", ![t].err = "none"]
    /\ UNCHANGED <<mgrs, allocated_blocks, free_blocks, blocks, next_id, lock, written>>

WorkerExit(t) == Exit(t, [th[t] EXCEPT !.pc = "idle"])

NextWorkers ==
    \E t \in Threads :
        \/ WorkerCall(t)
        \/ Enter(t)
        \/ AllocSearch(t)
        \/ AllocCarve(t)
        \/ WriteCheck(t)
        \/ WriteStore(t)
        \/ FreeCheck(t)
        \/ FreeRelease(t)
        \/ WorkerExit(t)

SpecWorkers == InitWorkers /\ [][NextWorkers]_vars

\* Threads that call alloc, free, defragmentation, allocated_size and free_size
\* on one manager, in any order and with any arguments, for ever.
InitClients ==
    /\ MemoryManagerInit({1})
    /\ written = NoWrite
    /\ th = [t \in Threads |-> IdleThread(0)]

\* The alloc calls that have started and not yet created their block.
AllocsInFlight ==
    Cardinality({t \in Threads : th[t].op = "alloc" /\ th[t].pc \in {"lock", "body", "carve"}})

\* The calls that take the lock, as [op, size, block]. alloc is called with a
\* small size and with the whole capacity.
Calls(m) ==
    {[op |-> "alloc", size |-> size, block |-> -1] :
        size \in {z \in {WorkerSize, total_size_of(m)} :
                     next_id + AllocsInFlight < MaxBlocks}}
    \cup {[op |-> "free", size |-> 0, block |-> id] : id \in DOMAIN blocks}
    \cup {[op |-> op, size |-> 0, block |-> -1] :
             op \in {"defragmentation", "allocated_size", "free_size"}}

ClientCall(t) ==
    /\ th[t].pc = "idle"
    /\ \E m \in mgrs : \E call \in Calls(m) :
          th' = [th EXCEPT ![t] = [IdleThread(0) EXCEPT
                    !.pc = "lock", !.op = call.op, !.mgr = m,
                    !.size = call.size, !.block = call.block]]
    /\ UNCHANGED <<mgrs, buffer, allocated_blocks, free_blocks, blocks, next_id,
                   last, lock, written>>

\* alloc(size) with size <= 0 raises at line 141, before it takes the lock.
InvalidSizeCall(t) ==
    /\ th[t].pc = "idle"
    /\ \E m \in mgrs : \E size \in {z \in AllocSizes(m) : z <= 0} : Alloc(m, size)
    /\ UNCHANGED <<lock, th, written>>

ClientExit(t) == Exit(t, IdleThread(0))

\* What a thread does once it is in a call that takes the lock, the wait for
\* the lock and the compaction of defragmentation aside.
InCall(t) ==
    \/ AllocSearch(t)
    \/ FreeSizeEnter(t)
    \/ FreeSizeExit(t)
    \/ AllocCarve(t)
    \/ FreeCheck(t)
    \/ FreeRelease(t)
    \/ QueryBody(t)
    \/ ClientExit(t)

NextClients ==
    \E t \in Threads :
        \/ ClientCall(t)
        \/ InvalidSizeCall(t)
        \/ Enter(t)
        \/ DefragmentationBody(t)
        \/ InCall(t)

\* The thread is at line 190, about to compact.
Compacts(t) == th[t].pc = "body" /\ th[t].op = "defragmentation"

\* Fair scheduling. A thread that waits for the lock gets it if the lock is
\* free again and again: SF_vars(Enter(t)). A thread that can run its next
\* statement does so: WF_vars(InCall(t)), and WF_vars(DefragmentationBody(t))
\* written out, with Compacts(t) for ENABLED <<DefragmentationBody(t)>>_vars:
\* _defragmentation waits for nothing, so the step is enabled whenever the
\* thread is at it.
FairScheduling ==
    \A t \in Threads :
        /\ SF_vars(Enter(t))
        /\ WF_vars(InCall(t))
        /\ []<>(~Compacts(t)) \/ []<><<DefragmentationBody(t)>>_vars

SpecClients == InitClients /\ [][NextClients]_vars /\ FairScheduling

\* ------------------------------------------------------------ observations
Ids == DOMAIN blocks

\* The blocks manager m handed out that were not released.
Live(m) == {id \in Ids : blocks[id].mgr = m /\ ~blocks[id].freed}

\* The bytes [start, end) of an extent or block, as a set of offsets.
Bytes(r) == r.start..(End(r) - 1)

\* block.read() with the default arguments
ReadAll(id) == read(buffer[blocks[id].mgr], blocks[id], FALSE, 0, 0)

\* ------------------------------------------------------------------ claims
\* How many live blocks and free extents of manager m hold byte p.
CoverCount(m, p) ==
    Cardinality({id \in Live(m) : p \in Bytes(blocks[id])})
    + Cardinality({i \in 1..Len(free_blocks[m]) : p \in Bytes(free_blocks[m][i])})

\* C1: after every alloc, free or defragmentation call, returning or raising,
\* the ranges of the live blocks and of the free extents tile [0, total_size):
\* every range lies inside it, every byte is in exactly one of them.
C1_Tiling ==
    \A m \in mgrs :
        /\ \A id \in Live(m) :
              blocks[id].size > 0 /\ Bytes(blocks[id]) \subseteq 0..(total_size_of(m) - 1)
        /\ \A i \in 1..Len(free_blocks[m]) :
              /\ free_blocks[m][i].size > 0
              /\ Bytes(free_blocks[m][i]) \subseteq 0..(total_size_of(m) - 1)
        /\ \A p \in 0..(total_size_of(m) - 1) : CoverCount(m, p) = 1

\* A fragmented heap right after a free: two free extents around a live block.
C1_Witness ==
    /\ last.op = "free" /\ last.err = "none"
    /\ \E m \in mgrs : Cardinality(Live(m)) >= 1 /\ Len(free_blocks[m]) = 2

\* C6: allocated_size + free_size = total_size after every call.
C6_SizesAddUp ==
    \A m \in mgrs : allocated_size(m) + free_size(m) = total_size_of(m)

\* An alloc that compacted and then raised, with both sums positive.
C6_Witness ==
    /\ last.op = "alloc" /\ last.err = "OutOfMemoryError" /\ last.compacted
    /\ \E m \in mgrs : allocated_size(m) > 0 /\ free_size(m) > 0

\* The step is an alloc or a free that raised.
Raised == last'.op \in {"alloc", "free"} /\ last'.err # "none"

\* C2 as stated: when alloc or free raises, the allocated blocks, their start
\* offsets, the free list and the buffer are what they were before the call.
C2_NoPartialMutation ==
    [][Raised =>
          /\ \A m \in mgrs : Range(allocated_blocks'[m]) = Range(allocated_blocks[m])
          /\ \A id \in Ids : blocks'[id].start = blocks[id].start
          /\ free_blocks' = free_blocks
          /\ buffer' = buffer]_vars

\* Manager m is compacted: each live block starts where the blocks before it
\* in the allocated list end, and the free space is one trailing extent.
Packed(m) ==
    /\ \A id \in Live(m) :
          blocks[id].start =
              SumSizes([k \in 1..(IndexOf(allocated_blocks[m], id) - 1) |->
                           blocks[allocated_blocks[m][k]]])
    /\ free_blocks[m] =
          IF allocated_size(m) < total_size_of(m)
          THEN <<FreeBlock(allocated_size(m), total_size_of(m) - allocated_size(m))>>
          ELSE << >>

\* C2 amended: a call that raises InvalidSizeError, DoubleFreeError or
\* InvalidBlockError changes nothing; an alloc that raises OutOfMemoryError
\* leaves what its compaction leaves: the same allocated blocks with the same
\* sizes, flags and contents, packed from offset 0 without gaps, the free
\* space in one trailing extent, and every other manager untouched.
C2_FailedCallEffect ==
    [][Raised =>
          IF last'.err = "OutOfMemoryError"
          THEN /\ \A m \in mgrs :
                     Range(allocated_blocks'[m]) = Range(allocated_blocks[m])
               /\ \A m \in mgrs \ {last'.mgr} :
                     /\ allocated_blocks'[m] = allocated_blocks[m]
                     /\ free_blocks'[m] = free_blocks[m]
                     /\ buffer'[m] = buffer[m]
               /\ DOMAIN blocks' = Ids /\ next_id' = next_id
               /\ \A id \in Ids :
                     /\ blocks'[id].size = blocks[id].size
                     /\ blocks'[id].freed = blocks[id].freed
                     /\ blocks'[id].mgr = blocks[id].mgr
                     /\ blocks[id].mgr # last'.mgr => blocks'[id] = blocks[id]
                     /\ blocks[id].freed => blocks'[id] = blocks[id]
                     /\ ~blocks[id].freed => ReadAll(id)' = ReadAll(id)
               /\ \A m \in mgrs : m = last'.mgr => Packed(m)'
          ELSE UNCHANGED <<allocated_blocks, free_blocks, blocks, buffer, next_id>>]_vars

\* An alloc that raised OutOfMemoryError after its compaction moved a block.
C2_Witness ==
    last.op = "alloc" /\ last.err = "OutOfMemoryError" /\ last.moved > 0

\* C3 as stated: a block that alloc returns over bytes a released block had
\* reads as zeros.
C3_ZeroOnFree ==
    (last.op = "alloc" /\ last.err = "none") =>
        LET b == blocks[last.block]
            reuses == \E f \in Ids : /\ blocks[f].freed
                                     /\ blocks[f].mgr = b.mgr
                                     /\ Bytes(blocks[f]) \cap Bytes(b) # {}
        IN  reuses => ReadAll(last.block) = Zeros(b.size)

\* C4 as stated: a write that does not raise changes only bytes inside its own
\* block and not the buffer's length; one that raises OutOfBoundsError changes
\* nothing.
C4_WriteConfined ==
    [][last'.op = "write" =>
          LET b == blocks[last'.block]
              old == buffer[b.mgr]
              new == buffer'[b.mgr]
          IN  /\ last'.err = "none" =>
                    /\ Len(new) = Len(old)
                    /\ \A p \in 1..Len(old) : (p - 1) \notin Bytes(b) => new[p] = old[p]
              /\ last'.err # "none" => buffer' = buffer]_vars

\* Free of another block, defragmentation and alloc leave what a live block
\* reads unchanged (the part of data preservation that is about manager calls).
ManagerCallsPreserveData ==
    [][last'.op \in {"alloc", "free", "defragmentation"} =>
          \A id \in Ids :
              (~blocks[id].freed /\ ~blocks'[id].freed) => ReadAll(id)' = ReadAll(id)]_vars

\* C5 as stated: what a live block reads changes only by a write through that
\* block.
C5_DataPreserved ==
    [][\A id \in Ids :
          (/\ ~blocks[id].freed
           /\ ~blocks'[id].freed
           /\ ~(last'.op = "write" /\ last'.block = id))
          => ReadAll(id)' = ReadAll(id)]_vars


\* A block is released once free has taken it off its manager's allocated list.
Released(id) == id \notin Range(allocated_blocks[blocks[id].mgr])

AllocatorUnchanged == UNCHANGED <<allocated_blocks, free_blocks, blocks, buffer, next_id>>

\* C7: on the allocator that returned the block, the first free succeeds and
\* every later free raises DoubleFreeError and changes nothing, whatever calls
\* came in between.
C7_DoubleFree ==
    [][\A id \in Ids :
          (last'.op = "free" /\ last'.block = id /\ blocks[id].mgr = last'.mgr) =>
              IF Released(id)
              THEN last'.err = "DoubleFreeError" /\ AllocatorUnchanged
              ELSE last'.err = "none" /\ blocks'[id].freed /\ Released(id)']_vars

\* A second free of a block whose old range a newer live block now occupies.
C7_Witness ==
    /\ last.op = "free" /\ last.err = "DoubleFreeError"
    /\ \E id \in Live(last.mgr) :
          id > last.block /\ Bytes(blocks[id]) \cap Bytes(blocks[last.block]) # {}

\* C8: a released block's freed flag is true and stays true; read and write
\* raise UseAfterFreeError on a released block, leaving the buffer alone, and
\* never on a live one.
C8_UseAfterFree ==
    [][/\ \A id \in Ids :
             /\ Released(id) => blocks[id].freed
             /\ blocks[id].freed => (id \in DOMAIN blocks' /\ blocks'[id].freed)
       /\ last'.op \in {"read", "write"} =>
             IF Released(last'.block)
             THEN last'.err = "UseAfterFreeError" /\ AllocatorUnchanged
             ELSE last'.err # "UseAfterFreeError"]_vars

\* A write refused on a released block after a later alloc reused its bytes.
C8_Witness ==
    /\ last.op = "write" /\ last.err = "UseAfterFreeError"
    /\ \E id \in Live(last.mgr) :
          id > last.block /\ Bytes(blocks[id]) \cap Bytes(blocks[last.block]) # {}

\* The sizes of the blocks in S, added up.
RECURSIVE SumOfBlocks(_)
SumOfBlocks(S) ==
    IF S = {} THEN 0
    ELSE LET id == CHOOSE x \in S : TRUE
         IN  blocks[id].size + SumOfBlocks(S \ {id})

\* C9: an OutOfMemoryError carries the size alloc was called with and the sum
\* of the free extents' sizes, which is total_size less the live blocks' sizes.
C9_OutOfMemoryReport ==
    [][(last'.op = "alloc" /\ last'.err = "OutOfMemoryError") =>
          \A m \in mgrs : \A size \in AllocSizes(m) :
              Alloc(m, size) =>
                  /\ last'.size = size
                  /\ last'.available_size = free_size(m)
                  /\ last'.available_size = free_size(m)'
                  /\ last'.available_size = total_size_of(m) - SumOfBlocks(Live(m))]_vars

\* alloc(3) raised with 2 bytes free that lay in two extents before it compacted.
C9_Witness ==
    /\ last.op = "alloc" /\ last.err = "OutOfMemoryError"
    /\ last.size = 3 /\ last.available_size = 2 /\ last.moved = 1

\* C10: alloc(size) with size > 0 returns a block of that size exactly when
\* size <= free_size, however the free bytes are split, and raises
\* OutOfMemoryError only when size > available_size.
C10_AllocIffFits ==
    [][(last'.op = "alloc" /\ last'.size > 0) =>
          /\ last'.err = "none" <=> last'.size <= free_size(last'.mgr)
          /\ last'.err = "none" =>
                /\ last'.block \notin Ids
                /\ blocks'[last'.block].size = last'.size
                /\ ~blocks'[last'.block].freed
          /\ last'.err # "none" =>
                /\ last'.err = "OutOfMemoryError"
                /\ last'.size > last'.available_size]_vars

\* An alloc that succeeded only because compaction joined two free extents.
C10_Witness ==
    /\ last.op = "alloc" /\ last.err = "none"
    /\ last.compacted /\ last.moved > 0

\* C11: after defragmentation the live blocks of the manager lie back to back
\* in [0, allocated_size) in the address order they had before, every block
\* keeps its identity, size and freed flag, and the free list is the one extent
\* [allocated_size, total_size), or empty when nothing is free.
C11_CompactionPostcondition ==
    [][last'.op = "defragmentation" =>
          \A m \in mgrs : m = last'.mgr =>
              /\ DOMAIN blocks' = Ids
              /\ Range(allocated_blocks'[m]) = Range(allocated_blocks[m])
              /\ \A id \in Ids :
                    /\ blocks'[id].size = blocks[id].size
                    /\ blocks'[id].freed = blocks[id].freed
                    /\ blocks'[id].mgr = blocks[id].mgr
              /\ UNION {Bytes(blocks'[id]) : id \in Live(m)} = 0..(allocated_size(m)' - 1)
              /\ \A a, b \in Live(m) :
                    blocks[a].start < blocks[b].start => blocks'[a].start < blocks'[b].start
              /\ free_blocks'[m] =
                    IF allocated_size(m)' < total_size_of(m)
                    THEN <<FreeBlock(allocated_size(m)', total_size_of(m) - allocated_size(m)')>>
                    ELSE << >>]_vars

\* A defragmentation that moved two blocks down over a hole.
C11_Witness ==
    /\ last.op = "defragmentation" /\ last.moved >= 2
    /\ Cardinality(Live(last.mgr)) >= 2

\* C12: free of a block the manager does not track, a live block of another
\* manager for one, raises InvalidBlockError when the block's freed flag is
\* false and DoubleFreeError when it is true, and changes neither manager's
\* allocated list, free list or buffer, nor the block's freed flag.
C12_InvalidBlock ==
    [][\A id \in Ids :
          (/\ last'.op = "free" /\ last'.block = id
           /\ \/ blocks[id].mgr # last'.mgr
              \/ id \notin Range(allocated_blocks[last'.mgr]))
          => /\ last'.err = IF blocks[id].freed THEN "DoubleFreeError"
                                                ELSE "InvalidBlockError"
             /\ AllocatorUnchanged
             /\ blocks'[id].freed = blocks[id].freed]_vars

\* A live block of one manager refused by the other, which has a live block of
\* its own at the same offset and of the same size.
C12_Witness ==
    /\ last.op = "free" /\ last.err = "InvalidBlockError"
    /\ ~blocks[last.block].freed /\ blocks[last.block].mgr # last.mgr
    /\ \E id \in Live(last.mgr) :
          /\ blocks[id].start = blocks[last.block].start
          /\ blocks[id].size = blocks[last.block].size

C16_FreeListCoalesced ==
    \A m \in mgrs :
        \A i, j \in 1..Len(free_blocks[m]) :
            i # j => /\ End(free_blocks[m][i]) # free_blocks[m][j].start
                     /\ Bytes(free_blocks[m][i]) \cap Bytes(free_blocks[m][j]) = {}

\* An alloc appended the rest of an extent behind an extent of a higher
\* address: the free list is out of address order.
C16_Witness ==
    /\ last.op = "alloc" /\ last.err = "none"
    /\ \E i \in 2..Len(free_blocks[last.mgr]) :
          free_blocks[last.mgr][i].start < free_blocks[last.mgr][i - 1].start

\* C17: defragmentation returns the number of live blocks whose start is not
\* what it was before the call; a block that was already in place is not
\* counted and reads what it read before.
C17_MovedCount ==
    [][last'.op = "defragmentation" =>
          \A m \in mgrs : m = last'.mgr =>
              /\ last'.moved =
                    Cardinality({id \in Live(m) : blocks'[id].start # blocks[id].start})
              /\ \A id \in Live(m) :
                    blocks'[id].start = blocks[id].start => ReadAll(id)' = ReadAll(id)]_vars

\* A defragmentation that moved a block and left another one in place.
C17_Witness ==
    /\ last.op = "defragmentation" /\ last.moved >= 1
    /\ Cardinality(Live(last.mgr)) > last.moved

\* The call that finished last compacted the manager: a defragmentation, or an
\* alloc that raised OutOfMemoryError.
JustCompacted ==
    \/ last.op = "defragmentation"
    \/ last.op = "alloc" /\ last.err = "OutOfMemoryError"

\* C19: a defragmentation called right after a defragmentation, or right after
\* an alloc that compacted and raised, returns 0 and changes no block's start,
\* neither the free list nor the buffer.
C19_Idempotent ==
    [][(JustCompacted /\ last'.op = "defragmentation" /\ last'.mgr = last.mgr) =>
          /\ last'.moved = 0
          /\ UNCHANGED <<allocated_blocks, free_blocks, blocks, buffer, next_id>>]_vars

\* A manager right after a defragmentation that moved a block holding a
\* non-zero byte: the state the second call starts from.
C19_Witness ==
    /\ last.op = "defragmentation" /\ last.moved = 1
    /\ \E id \in Live(last.mgr) : blocks[id].start = 0 /\ ReadAll(id) # Zeros(blocks[id].size)

\* The bytes the extents of a free list cover.
Covered(fl) == UNION {Bytes(fl[i]) : i \in 1..Len(fl)}

\* What the coalescing helper does to a list that has a first element: it
\* returns, the list covers the bytes it covered, no extent ends where the
\* next one starts, and a list of one extent is left as it is.
CoalesceOnNonEmpty ==
    [][\A m \in mgrs :
          (last'.op = "_coalesce_free_blocks" /\ last'.mgr = m /\ free_blocks[m] # << >>) =>
              /\ last'.err = "none"
              /\ Covered(free_blocks'[m]) = Covered(free_blocks[m])
              /\ \A i \in 1..(Len(free_blocks'[m]) - 1) :
                    End(free_blocks'[m][i]) # free_blocks'[m][i + 1].start
              /\ Len(free_blocks[m]) = 1 => free_blocks'[m] = free_blocks[m]]_vars

\* C20 as stated: given a free list sorted by start, the coalescing helper
\* returns normally, merges every run of adjacent extents, keeps the covered
\* bytes, and leaves a list of one extent and the empty list as they are.
C20_CoalesceHelper ==
    [][\A m \in mgrs :
          (last'.op = "_coalesce_free_blocks" /\ last'.mgr = m) =>
              /\ last'.err = "none"
              /\ Covered(free_blocks'[m]) = Covered(free_blocks[m])
              /\ \A i \in 1..(Len(free_blocks'[m]) - 1) :
                    End(free_blocks'[m][i]) # free_blocks'[m][i + 1].start
              /\ Len(free_blocks[m]) <= 1 => free_blocks'[m] = free_blocks[m]]_vars

\* Every worker has run all its cycles.
WorkersDone ==
    \A t \in Threads :
        /\ th[t].pc = "idle" /\ th[t].left = 0
        /\ th[t].op \in {"none", "free"} \/ th[t].err # "none"

\* C13: when several threads each repeat alloc(s), write, free on one manager
\* and together ask for no more than its capacity, then under every
\* interleaving no call raises, no two live blocks share a byte, and when all
\* threads have finished allocated_size is 0 and free_size is total_size.
C13_Workers ==
    /\ last.err = "none"
    /\ \A t \in Threads : th[t].err = "none"
    /\ \A m \in mgrs : \A a, b \in Live(m) :
          a # b => Bytes(blocks[a]) \cap Bytes(blocks[b]) = {}
    /\ WorkersDone =>
          \A m \in mgrs : allocated_size(m) = 0 /\ free_size(m) = total_size_of(m)

\* All workers have finished, every block was used, and one of them was
\* allocated while another thread's block was live.
C13_Witness ==
    /\ WorkersDone /\ next_id = MaxBlocks
    /\ \E id \in Ids : blocks[id].start > 0

\* C18: with threads calling alloc, free, defragmentation, allocated_size and
\* free_size on one manager under fair scheduling, every call returns or
\* raises (at every moment each thread is between calls, or will be); a thread
\* outside the with block does not own the lock, whatever way it left; the
\* thread that takes the lock again inside alloc is not stopped by its own lock.
C18_NoDeadlock ==
    /\ \A t \in Threads : []<>(th[t].pc = "idle")
    /\ [](\A t \in Threads : \A m \in mgrs :
             /\ th[t].pc \in {"idle", "lock"} => lock[m].owner # t
             /\ lock[m].owner = t => lock[m].count =
                    (IF th[t].pc = "free_size_sum" THEN 2 ELSE 1))

\* A thread holds the lock twice, in free_size on the way to an
\* OutOfMemoryError, while the other thread waits for the lock.
C18_Witness ==
    \E t, u \in Threads :
        /\ th[t].pc = "free_size_sum" /\ lock[th[t].mgr].count = 2
        /\ th[u].pc = "lock"

====
